---- MODULE Spec2Model ----
(***************************************************************************)
(* Car-alert pipeline (src/src/05_car_alerts): the matcher with its        *)
(* persistent "already mailed" cache (matcher.py) and the rolling YAML     *)
(* record store (orchestrator.py, _save_batch_to_yaml).                    *)
(*                                                                         *)
(* Identities (listing URLs) are small integers.  Scores are tenths, so    *)
(* the threshold 0.5 is 5.  The shard capacity 3000 is scaled to Capacity. *)
(***************************************************************************)
EXTENDS Integers, Sequences, FiniteSets, TLC

VARIABLES
    sent_cache,     \* CarMatcher.sent_cache: the in-memory set of mailed URLs
    cache_file,     \* data/sent.json: the sorted list last written by _save
    queries_file,   \* data/queries.json: the ordered query list
    m_cars,         \* the cars given to the last match call (their URLs)
    m_before,       \* sent_cache when the last match call started
    m_log,          \* scorer invocations of the last match call: <<pos, qi, result>>
    m_hits,         \* the hits list built by the last match call: <<url, query>>
    m_ret,          \* how the last match call ended: "none", "returned", "raised"
    alerts,         \* per URL, in how many returned hits it appeared so far (capped)
    files,          \* data/vehicles_data_<n>.yaml: shard number -> set of stored URLs
    s_batch,        \* the batch given to the last _save_batch_to_yaml call
    s_added,        \* the value of `added` at the end of that call
    s_current,      \* the shard number that call loaded as `current` (0: before any call)
    s_highest,      \* the highest shard number on disk when that call started (0: none)
    s_rolled,       \* the shard numbers that call started on rollover, in order
    pc,             \* where run_daily_job stands: "idle", "matcher", "discover", "extract",
                    \* "store", "match", "dispatch", "finish", "exited"
    driver,         \* the browser session of the run's parser: "none", "open", "closed"
    g_page,         \* scrape_all_links: the last page index fetched
    g_status,       \* how the fetch of each page so far ended: "ok", "error", "session"
    g_rest,         \* the links of the current page not yet looked at
    g_batch,        \* scrape_all_links: the local buffer `batch`
    g_ended,        \* the loop over the pages is over
    g_out,          \* every link appended to `batch` during this walk, in order
    g_skipped,      \* the links this walk skipped because they were in seen_links
    links_chunk,    \* the batch last yielded to run_daily_job
    r_cars,         \* the records parsed from links_chunk (their URLs)
    r_cause,        \* the stage whose exception ended the run ("none": no exception)
    r_failed,       \* the links of the batch whose extraction failed
    mailed,         \* run_daily_job: the count of new matches
    runs,           \* how many times run_daily_job has been started
    k_batch,        \* the batch that was complete when the process was last killed
    r_prior,        \* the identities stored or alerted before this run began
    r_queries,      \* the query lists that the match calls of this run loaded
    v_out,          \* scraper.py: the "url" fields of the records vehicle_generator yielded
    slept,          \* the time the last extraction of a batch spent in time.sleep, in tenths of a second
    g_links,        \* the item links get_item_links returned for the pages fetched so far, in order
    r_start,        \* sent_cache as the matcher of this run loaded it
    rows,           \* QueryGUI.rows: the list of {"query", "brand"} rows
    undo_stack,     \* QueryGUI.undo_stack: row lists, the newest last
    redo_stack,     \* QueryGUI.redo_stack: row lists, the newest last
    selection,      \* tree.selection(): the selected row positions (1-based)
    gui,            \* the editor window: "none", "open", "closed"
    e_op,           \* the editor handler that ran last ("none": none yet)
    e_query,        \* what the Query entry held when that handler ran
    e_brand,        \* what the Car brand entry held when that handler ran
    e_pre,          \* the row list before the last accepted add, update or delete
    e_fresh,        \* no undo or redo has run since that edit
    e_mark,         \* the row list when the current series of undos began
    e_undos,        \* how many undos that series has (capped)
    e_redos,        \* how many redos have followed them (capped)
    e_idle,         \* one of those undos found the undo stack empty
    jobs,           \* scheduler: the instances of run_daily_job that are executing
    j_fired         \* scheduler: how many times the cron trigger has fired (capped)

matcherVars == <<sent_cache, cache_file, queries_file, m_cars, m_before, m_log, m_hits, m_ret, alerts>>

storeVars == <<files, s_batch, s_added, s_current, s_highest, s_rolled>>

runVars == <<pc, driver, g_page, g_status, g_rest, g_batch, g_ended, g_out, g_skipped, g_links, links_chunk, r_cars, r_cause, r_failed, mailed, r_start>>

genVars == <<g_page, g_status, g_rest, g_batch, g_ended, g_out, g_skipped, g_links>>

editorVars == <<rows, undo_stack, redo_stack, selection, gui, e_op, e_query, e_brand, e_pre, e_fresh, e_mark, e_undos, e_redos, e_idle>>

schedVars == <<jobs, j_fired>>

lifeVars == <<runs, k_batch, r_prior, v_out, slept, editorVars, schedVars>>

opsVars == <<runs, k_batch, r_prior, r_queries, v_out, slept, editorVars, schedVars>>

vars == <<matcherVars, storeVars, runVars, opsVars>>

----------------------------------------------------------------------------
(* Bounds and scaled program values *)

\* how many distinct listing URLs the runs meet
NumIds == 2

\* how many queries queries.json holds at most
NumQueries == 2

\* batch_size (default 10, BATCH_SIZE of the configuration), scaled down
BatchSize == 2

\* threshold (default 0.5), in tenths
Threshold == 5

Ids == 1..NumIds

QueryTexts == 1..NumQueries

\* match is called with up to one record more than a full batch
MaxCars == BatchSize + 1

\* results the scorer can hand back around the threshold
Scores == {Threshold - 1, Threshold, Threshold + 1}

\* CarMatcher._predict(q, car_json): a score, or the call raises
ScorerResults == {[ok |-> TRUE, score |-> s] : s \in Scores} \cup {[ok |-> FALSE, score |-> 0]}

RECURSIVE SeqsUpTo(_, _)
SeqsUpTo(S, n) == IF n = 0 THEN {<<>>} ELSE SeqsUpTo(S, n - 1) \cup [1..n -> S]

Range(s) == {s[i] : i \in 1..Len(s)}

----------------------------------------------------------------------------
(* matcher.py *)

\* sorted(self.sent_cache): the ascending list of the set's elements
RECURSIVE sorted(_)
sorted(S) == IF S = {} THEN <<>> ELSE LET m == CHOOSE x \in S : \A y \in S : x <= y IN <<m>> \o sorted(S \ {m})

\* a matcher that starts with an empty set whatever the file holds
LoadCacheEmpty(file) == {}

\* _load(CACHE_FILE, []) wrapped in set(...)
LoadCache(file) == Range(file)

\* a matcher that never skips a record
AlreadySentNever(url, cache) == FALSE

\* `if url in self.sent_cache: continue`
AlreadySent(url, cache) == url \in cache

\* a strict comparison in place of >=
IsHitStrict(score) == score > Threshold

\* `self._predict(q, car_json) >= threshold`
IsHit(score) == score >= Threshold

\* a hit that is reported but not remembered
RecordHitForgets(st, url, q) == [st EXCEPT !.hits = Append(@, <<url, q>>)]

\* `hits.append((url, q)); self.sent_cache.add(url)`
RecordHit(st, url, q) == [st EXCEPT !.hits = Append(@, <<url, q>>), !.cache = @ \cup {url}]

\* `for q in queries:` from index qi on, for the record at position pos.
\* Each outcome: the index of the matching query (0: none), the scorer
\* invocations made, and whether the scorer raised.
RECURSIVE ScanQueries(_, _, _)
ScanQueries(pos, qi, queries) ==
    IF qi > Len(queries)
    THEN {[hit |-> 0, log |-> {}, raised |-> FALSE]}
    ELSE UNION {
        IF ~r.ok
        THEN {[hit |-> 0, log |-> {<<pos, qi, r>>}, raised |-> TRUE]}
        ELSE IF IsHit(r.score)
        THEN {[hit |-> qi, log |-> {<<pos, qi, r>>}, raised |-> FALSE]}
        ELSE {[o EXCEPT !.log = @ \cup {<<pos, qi, r>>}] : o \in ScanQueries(pos, qi + 1, queries)}
        : r \in ScorerResults}

\* a scan that remembers every scored record, matched or not
AfterScanMarksAll(st, o, url, queries) ==
    LET logged == [st EXCEPT !.log = @ \cup o.log, !.raised = o.raised, !.cache = @ \cup {url}]
    IN  IF o.hit # 0 THEN [logged EXCEPT !.hits = Append(@, <<url, queries[o.hit]>>)] ELSE logged

\* the effect of one record's query scan on the call's state
AfterScan(st, o, url, queries) ==
    LET logged == [st EXCEPT !.log = @ \cup o.log, !.raised = o.raised]
    IN  IF o.hit # 0 THEN RecordHit(logged, url, queries[o.hit]) ELSE logged

\* `for car_json in batch:` from index k on; batch holds positions of cars
RECURSIVE ScoreBatch(_, _, _, _, _)
ScoreBatch(cars, queries, batch, k, st) ==
    IF st.raised \/ k > Len(batch)
    THEN {st}
    ELSE LET pos == batch[k]
             url == cars[pos]
         IN  IF AlreadySent(url, st.cache)
             THEN ScoreBatch(cars, queries, batch, k + 1, st)
             ELSE UNION {ScoreBatch(cars, queries, batch, k + 1, AfterScan(st, o, url, queries))
                         : o \in ScanQueries(pos, 1, queries)}

\* `if len(batch) < batch_size: continue`
BatchNotFull(batch) == Len(batch) < BatchSize

\* `for car in cars:` from index i on, with the records buffered so far
RECURSIVE MatchLoop(_, _, _, _, _)
MatchLoop(cars, queries, i, batch, st) ==
    IF st.raised \/ i > Len(cars)
    THEN {st}
    ELSE LET b == Append(batch, i)
         IN  IF BatchNotFull(b)
             THEN MatchLoop(cars, queries, i + 1, b, st)
             ELSE UNION {MatchLoop(cars, queries, i + 1, <<>>, st2)
                         : st2 \in ScoreBatch(cars, queries, b, 1, st)}

\* a save that writes the new hits only
SavedCacheHitsOnly(st, file) ==
    IF st.hits # <<>> THEN sorted({st.hits[i][1] : i \in DOMAIN st.hits}) ELSE file

\* `if hits: _save(CACHE_FILE, sorted(self.sent_cache))`
SavedCache(st, file) == IF st.hits # <<>> THEN sorted(st.cache) ELSE file

\* the alert counter stops at 2: "more than once" is all that is asked of it
Bump(n) == IF n < 2 THEN n + 1 ELSE 2

\* how often url occurs among the hits
RECURSIVE HitCount(_, _)
HitCount(hits, url) ==
    IF hits = <<>> THEN 0
    ELSE (IF Head(hits)[1] = url THEN 1 ELSE 0) + HitCount(Tail(hits), url)

RECURSIVE BumpBy(_, _)
BumpBy(n, k) == IF k = 0 THEN n ELSE BumpBy(Bump(n), k - 1)

\* CarMatcher.match(cars, batch_size=BATCH_SIZE, threshold=THRESHOLD).
\* An exception of the scorer leaves match with sent_cache already updated,
\* nothing saved and nothing returned; run_daily_job has no except clause, so
\* the run ends there and this matcher object gets no further call.
MatchCall(batch_cars) ==
    /\ m_ret # "raised"
    /\ LET queries == queries_file
           start == [cache |-> sent_cache, hits |-> <<>>, log |-> {}, raised |-> FALSE]
       IN  \E st \in MatchLoop(batch_cars, queries, 1, <<>>, start) :
             /\ sent_cache' = st.cache
             /\ m_cars' = batch_cars
             /\ m_before' = sent_cache
             /\ m_log' = st.log
             /\ m_hits' = st.hits
             /\ IF st.raised
                THEN /\ m_ret' = "raised"
                     /\ UNCHANGED <<cache_file, alerts>>
                ELSE /\ m_ret' = "returned"
                     /\ cache_file' = SavedCache(st, cache_file)
                     /\ alerts' = [u \in DOMAIN alerts |-> BumpBy(alerts[u], HitCount(st.hits, u))]
    /\ UNCHANGED queries_file

\* match called on its own, outside a run
Match(batch_cars) == MatchCall(batch_cars) /\ UNCHANGED <<storeVars, runVars, opsVars>>

\* CarMatcher.__init__ of the next run: the cache is read back from disk
NewRun ==
    /\ sent_cache' = LoadCache(cache_file)
    /\ m_cars' = <<>>
    /\ m_before' = LoadCache(cache_file)
    /\ m_log' = {}
    /\ m_hits' = <<>>
    /\ m_ret' = "none"
    /\ UNCHANGED <<cache_file, queries_file, alerts, storeVars, runVars>>
    /\ UNCHANGED opsVars

\* the query lists tried: the first k query texts, in order
QueryLists == {[i \in 1..k |-> i] : k \in 0..NumQueries}

MatcherInit ==
    /\ sent_cache = {}
    /\ cache_file = <<>>
    /\ queries_file \in QueryLists
    /\ m_cars = <<>>
    /\ m_before = {}
    /\ m_log = {}
    /\ m_hits = <<>>
    /\ m_ret = "none"
    /\ alerts = [u \in Ids |-> 0]

\* run_daily_job was started by hand, not by the scheduler
SchedIdle ==
    /\ jobs = 0
    /\ j_fired = 0

\* the query editor has not been started
EditorIdle ==
    /\ rows = <<>>
    /\ undo_stack = <<>>
    /\ redo_stack = <<>>
    /\ selection = {}
    /\ gui = "none"
    /\ e_op = "none"
    /\ e_query = ""
    /\ e_brand = ""
    /\ e_pre = <<>>
    /\ e_fresh = FALSE
    /\ e_mark = <<>>
    /\ e_undos = 0
    /\ e_redos = 0
    /\ e_idle = FALSE

\* no run of run_daily_job is under way
RunAtRest ==
    /\ pc = "idle"
    /\ driver = "none"
    /\ g_page = 0
    /\ g_status = <<>>
    /\ g_rest = <<>>
    /\ g_batch = <<>>
    /\ g_ended = FALSE
    /\ g_out = <<>>
    /\ g_skipped = {}
    /\ g_links = <<>>
    /\ links_chunk = <<>>
    /\ r_cars = <<>>
    /\ r_cause = "none"
    /\ r_failed = {}
    /\ mailed = 0
    /\ r_start = {}
    /\ runs = 1
    /\ k_batch = <<>>
    /\ r_queries = {}
    /\ v_out = <<>>
    /\ slept = 0

\* no run is under way and the editor is not in use
RunIdle == RunAtRest /\ EditorIdle /\ SchedIdle

\* the record store is not part of the matcher's specification
StoreIdle ==
    /\ files = <<>>
    /\ s_batch = <<>>
    /\ s_added = 0
    /\ s_current = 0
    /\ s_highest = 0
    /\ s_rolled = <<>>

MatchStep == \E cars \in SeqsUpTo(Ids, MaxCars) : Match(cars)

MatcherNext == MatchStep \/ NewRun

InitMatcher == MatcherInit /\ StoreIdle /\ RunIdle /\ r_prior = {}

SpecMatcher == InitMatcher /\ [][MatcherNext]_vars

----------------------------------------------------------------------------
(* orchestrator.py: _save_batch_to_yaml *)

\* the 3000 of `if len(existing) >= 3000`, scaled down
Capacity == 2

\* str(n): the decimal digits of a shard number, as character codes
RECURSIVE Digits(_)
Digits(n) == IF n < 10 THEN <<48 + n>> ELSE Digits(n \div 10) \o <<48 + (n % 10)>>

\* the part of "vehicles_data_<n>.yaml" that differs between shards: <n> and the dot
FileName(n) == Digits(n) \o <<46>>

\* string comparison a < b, character by character
RECURSIVE StrLess(_, _)
StrLess(a, b) ==
    IF b = <<>> THEN FALSE
    ELSE IF a = <<>> THEN TRUE
    ELSE IF Head(a) # Head(b) THEN Head(a) < Head(b)
    ELSE StrLess(Tail(a), Tail(b))

\* sorted(DATA_DIR.glob("vehicles_data_*.yaml"))[-1]: the last path in string order
LatestFile(numbers) == CHOOSE n \in numbers : \A m \in numbers : m = n \/ StrLess(FileName(m), FileName(n))

\* int(current.stem.split("_")[-1]) + 1
NextIndex(current) == current + 1

\* `with current.open("w") ...: yaml.safe_dump(existing, fh)`
WriteFile(disk, current, existing) == (current :> existing) @@ disk

\* `if url in seen_urls: continue`
AlreadyStored(url, seen_urls) == url \in seen_urls

\* `if len(existing) >= 3000`
ShardFull(existing) == Cardinality(existing) >= Capacity

\* the body of `for car in batch:` for one car, on the call's state
\* st = [disk, current, existing, seen_urls, added]; rolled lists the shards started
StoreCar(st, url) ==
    IF AlreadyStored(url, st.seen_urls)
    THEN st
    ELSE LET existing == st.existing \cup {url}
         IN  IF ShardFull(existing)
             THEN [disk |-> WriteFile(st.disk, st.current, existing),
                   current |-> NextIndex(st.current),
                   existing |-> {},
                   seen_urls |-> {},
                   added |-> st.added + 1,
                   rolled |-> Append(st.rolled, NextIndex(st.current))]
             ELSE [st EXCEPT !.existing = existing,
                             !.seen_urls = @ \cup {url},
                             !.added = @ + 1]

RECURSIVE StoreLoop(_, _, _)
StoreLoop(batch, i, st) ==
    IF i > Len(batch) THEN st ELSE StoreLoop(batch, i + 1, StoreCar(st, batch[i]))

\* "discover latest file": the shard and the mapping the call starts from
\* (every shard file is taken to be readable YAML)
LoadLatest(disk) ==
    IF DOMAIN disk # {}
    THEN LET current == LatestFile(DOMAIN disk)
         IN  [disk |-> disk, current |-> current, existing |-> disk[current],
              seen_urls |-> disk[current], added |-> 0, rolled |-> <<>>]
    ELSE [disk |-> disk, current |-> 1, existing |-> {}, seen_urls |-> {}, added |-> 0,
          rolled |-> <<>>]

\* `if added:` write back the tail file
WriteBack(st) == IF st.added # 0 THEN WriteFile(st.disk, st.current, st.existing) ELSE st.disk

\* _save_batch_to_yaml(batch, logger): the disk afterwards and the count added
SaveResult(disk, batch) ==
    LET st == StoreLoop(batch, 1, LoadLatest(disk))
    IN  [disk |-> WriteBack(st), added |-> st.added, rolled |-> st.rolled]

Max(S) == CHOOSE x \in S : \A y \in S : y <= x

\* shards created beyond those of the initial disk are capped
MaxShards == 3

\* records stored by earlier runs: Capacity distinct URLs per shard, none of them in Ids
ArchivedIds(n) == {NumIds + n * Capacity + j : j \in 1..Capacity}

Archive == UNION {ArchivedIds(n) : n \in 1..10}

FreshShards(disk) == {n \in DOMAIN disk : disk[n] \cap Archive = {}}

SaveCall(batch) ==
    \E r \in {SaveResult(files, batch)} :
        /\ Cardinality(FreshShards(r.disk)) <= MaxShards
        /\ files' = r.disk
        /\ s_batch' = batch
        /\ s_added' = r.added
        /\ s_current' = LoadLatest(files).current
        /\ s_highest' = IF DOMAIN files = {} THEN 0 ELSE Max(DOMAIN files)
        /\ s_rolled' = r.rolled

\* _save_batch_to_yaml called on its own, outside a run
SaveBatch(batch) == SaveCall(batch) /\ UNCHANGED <<matcherVars, runVars, opsVars>>

SaveStep == \E batch \in SeqsUpTo(Ids, MaxCars) : SaveBatch(batch)

\* a disk after many runs: nine full shards and a tenth, empty or holding one
\* record, as left by the call whose batch filled shard 9 and ended there or
\* one record later
AgedDisk(tail) == [n \in 1..10 |-> IF n <= 9 THEN ArchivedIds(n) ELSE tail]

StoreInit ==
    /\ files \in {<<>>} \cup {AgedDisk(tail) : tail \in {{}} \cup {{u} : u \in ArchivedIds(10)}}
    /\ s_batch = <<>>
    /\ s_added = 0
    /\ s_current = 0
    /\ s_highest = 0
    /\ s_rolled = <<>>

\* the matcher is not part of the store's specification
MatcherIdle ==
    /\ sent_cache = {}
    /\ cache_file = <<>>
    /\ queries_file = <<>>
    /\ m_cars = <<>>
    /\ m_before = {}
    /\ m_log = {}
    /\ m_hits = <<>>
    /\ m_ret = "none"
    /\ alerts = [u \in Ids |-> 0]

InitStore == StoreInit /\ MatcherIdle /\ RunIdle /\ r_prior = {}

SpecStore == InitStore /\ [][SaveStep]_vars

StoredIds(disk) == UNION {disk[n] : n \in DOMAIN disk}

----------------------------------------------------------------------------
(* Properties of CarMatcher.match, checked under SpecMatcher *)

\* the scorer was invoked for the record at position pos
ScoredAt(pos) == \E e \in m_log : e[1] = pos

\* some scorer invocation for the record at position pos reached the threshold
ReachedAt(pos) == \E e \in m_log : e[1] = pos /\ e[3].ok /\ e[3].score >= Threshold

\* the seen set at the moment the record at position pos is considered
SeenAt(pos) == m_before \cup {m_cars[p] : p \in {p \in 1..(pos - 1) : ReachedAt(p)}}

HitIds == {m_hits[k][1] : k \in 1..Len(m_hits)}

\* C1: over all match calls of all runs, every identity is returned in at most
\* one hit in total, whether it reappears in the same batch, a later batch or a
\* later run.
AtMostOneAlert == \A u \in Ids : alerts[u] <= 1

\* an identity reported before is handed to a later call inside a full batch
AtMostOneAlertWitness ==
    /\ m_ret = "returned"
    /\ queries_file # <<>>
    /\ Len(m_cars) >= BatchSize
    /\ \E pos \in 1..BatchSize : m_cars[pos] \in m_before /\ alerts[m_cars[pos]] = 1

\* C2: the scorer is never invoked for a record whose identity is in the seen
\* set at the moment the record is considered, and no returned hit names an
\* identity that was seen before the call or hit earlier in the call.
NeverScoresSeen ==
    /\ \A e \in m_log : m_cars[e[1]] \notin SeenAt(e[1])
    /\ \A k \in 1..Len(m_hits) :
         /\ m_hits[k][1] \notin m_before
         /\ \A j \in 1..(k - 1) : m_hits[j][1] # m_hits[k][1]

\* a batch holds the same identity twice: the first is hit, the second skipped
NeverScoresSeenWitness ==
    /\ m_ret = "returned"
    /\ \E p, pos \in 1..Len(m_cars) :
         /\ p < pos
         /\ pos <= BatchSize
         /\ m_cars[p] = m_cars[pos]
         /\ ReachedAt(p)
         /\ ~ScoredAt(pos)

\* C3: every returned hit (identity, q) comes from a record for which the scorer
\* returned >= threshold for q and < threshold for every query before q, and no
\* query after q was scored for that record; every score >= threshold (equality
\* included) is a returned hit.
FirstMatchWins ==
    m_ret = "returned" =>
      /\ \A k \in 1..Len(m_hits) :
           \E pos \in 1..Len(m_cars), qi \in 1..Len(queries_file) :
             /\ m_cars[pos] = m_hits[k][1]
             /\ queries_file[qi] = m_hits[k][2]
             /\ \E e \in m_log : e[1] = pos /\ e[2] = qi /\ e[3].ok /\ e[3].score >= Threshold
             /\ \A qj \in 1..(qi - 1) :
                  \E e \in m_log : e[1] = pos /\ e[2] = qj /\ e[3].ok /\ e[3].score < Threshold
             /\ \A qj \in (qi + 1)..Len(queries_file) :
                  ~\E e \in m_log : e[1] = pos /\ e[2] = qj
      /\ \A e \in m_log :
           (e[3].ok /\ e[3].score >= Threshold) =>
             \E k \in 1..Len(m_hits) : m_hits[k] = <<m_cars[e[1]], queries_file[e[2]]>>

\* a hit on the second query, with a score exactly at the threshold
FirstMatchWinsWitness ==
    /\ m_ret = "returned"
    /\ \E e \in m_log :
         /\ e[2] = 2
         /\ e[3].ok
         /\ e[3].score = Threshold
         /\ <<m_cars[e[1]], queries_file[2]>> \in Range(m_hits)

\* C4: every record of a batch of at most batch-size records handed to match is
\* evaluated: afterwards it is in the seen set (seen before, or hit), or every
\* query was scored for it and stayed below the threshold.
EveryRecordEvaluated ==
    (m_ret = "returned" /\ Len(m_cars) <= BatchSize) =>
      \A pos \in 1..Len(m_cars) :
        \/ m_cars[pos] \in sent_cache
        \/ \A qi \in 1..Len(queries_file) :
             \E e \in m_log : e[1] = pos /\ e[2] = qi /\ e[3].ok /\ e[3].score < Threshold

\* C5: a match call that returns changes the seen set by exactly the identities
\* of its hits; a record that no query matched is neither in the in-memory set
\* nor in the saved list afterwards.
SeenGrowsByHits ==
    m_ret = "returned" =>
      /\ sent_cache = m_before \cup HitIds
      /\ \A pos \in 1..Len(m_cars) :
           (m_cars[pos] \notin m_before /\ m_cars[pos] \notin HitIds) =>
             (m_cars[pos] \notin sent_cache /\ m_cars[pos] \notin LoadCache(cache_file))

\* one record of the batch was scored without a match, another produced a hit
SeenGrowsByHitsWitness ==
    /\ m_ret = "returned"
    /\ m_hits # <<>>
    /\ \E pos \in 1..Len(m_cars) : ScoredAt(pos) /\ m_cars[pos] \notin sent_cache

----------------------------------------------------------------------------
(* Properties of _save_batch_to_yaml, checked under SpecStore *)

\* C6: appending is idempotent: a call given the same batch as the call before
\* it adds 0 records and leaves every shard file as it was.
AppendIdempotent ==
    [][(s_batch # <<>> /\ s_batch' = s_batch) => (s_added' = 0 /\ files' = files)]_vars

\* C7: after any sequence of calls every shard file holds at most Capacity records.
ShardsWithinCapacity == \A n \in DOMAIN files : Cardinality(files[n]) <= Capacity

\* C8: after any sequence of calls no identity is a key of two different shard files.
EachIdInOneShard ==
    \A m, n \in DOMAIN files : m # n => files[m] \cap files[n] = {}

\* C9: no data loss: an identity stored in some shard before a call is stored in
\* some shard after it.
NoStoredIdLost == [][StoredIds(files) \subseteq StoredIds(files')]_vars

\* C10: the shard numbers on disk are 1..k, the shard a call loads as active is
\* the highest-numbered one, and the shards a call starts on rollover are numbered
\* one higher than the highest existing shard, one after the other.
ShardNumberingGapFree ==
    /\ DOMAIN files = 1..Cardinality(DOMAIN files)
    /\ s_highest # 0 => s_current = s_highest
    /\ \A k \in 1..Len(s_rolled) :
         s_rolled[k] = (IF s_highest = 0 THEN 1 ELSE s_highest) + k

\* a shard that was persisted at capacity and has a higher-numbered successor
Rolled(disk, n) ==
    /\ n \in DOMAIN disk
    /\ Cardinality(disk[n]) >= Capacity
    /\ \E m \in DOMAIN disk : m > n

\* C11: a rolled shard is never reopened: no call changes the content of a shard
\* file that was persisted at capacity and is succeeded by a higher-numbered one.
RolledNeverReopened ==
    [][\A n \in DOMAIN files : Rolled(files, n) => (n \in DOMAIN files' /\ files'[n] = files[n])]_vars


---------------------------------------------------------------------------
\* article_parser.py: the paginator, ArticleLinkParser.scrape_all_links

\* bound: CONFIG["scraper"]["max_pages"], the number of result pages of a walk
MaxPages == 2

\* bound: the number of <a> elements on one result page
MaxLinks == 2

\* the forms of an href: ".../item/<id>#content", ".../item/<id>/details", and a
\* link that has no "/item/" in it
Kinds == {"content", "details", "other"}

\* an item link for every listing; of the forms that are filtered out, whose
\* identity never matters, one link each
RawLinks == [id : Ids, kind : {"content"}] \cup [id : {1}, kind : Kinds \ {"content"}]

\* how get_all_links(page_url) ends: the links of the page, or an exception of
\* the page ("error") or of the browser session ("session"); when it raises, links
\* holds the <a> elements gathered before the exception
FetchResults == [status : {"ok", "error", "session"}, links : SeqsUpTo(RawLinks, MaxLinks)]

\* `"/item/" in url and url.endswith("#content")`
IsItemLink(link) == link.kind = "content"

\* `url.replace("#content", "/details")`: the identity of the listing
Canonical(link) == link.id

\* filter_item_links(links), from index i on, with the local `seen` and `items`
RECURSIVE FilterFrom(_, _, _, _)
FilterFrom(links, i, seen, items) ==
    IF i > Len(links)
    THEN items
    ELSE IF IsItemLink(links[i]) /\ Canonical(links[i]) \notin seen
         THEN FilterFrom(links, i + 1, seen \cup {Canonical(links[i])}, Append(items, Canonical(links[i])))
         ELSE FilterFrom(links, i + 1, seen, items)

filter_item_links(links) == FilterFrom(links, 1, {}, <<>>)

\* get_item_links as if `except Exception` kept what had been gathered
GetItemLinksKeepsPartial(res) == filter_item_links(res.links)

\* get_item_links(url): `except Exception` logs and returns []
get_item_links(res) ==
    IF res.status = "ok" THEN filter_item_links(res.links) ELSE <<>>

\* the exclusion test against a copy of the seen set taken when the run began
ExcludedAtStart(link, seen_links) == link \in r_start

\* the exclusion test as if it never skipped
ExcludedNever(link, seen_links) == FALSE

\* `if link in seen_links: continue`
Excluded(link, seen_links) == link \in seen_links

\* the flush test as if it waited for one link more
BatchFullLate(batch) == Len(batch) = BatchSize + 1

\* `if len(batch) == batch_size:`
BatchFull(batch) == Len(batch) = BatchSize

\* a walk that drops what is left in the buffer
FinalFlushNever(batch) == FALSE

\* the final flush as if it were unconditional
FinalFlushAlways(batch) == TRUE

\* `if batch:` after the loop over the pages
FinalFlush(batch) == batch # <<>>

\* `for link in ...:` over the links `rest`, up to the next yield or the end of
\* the page; placed and skipped collect what was appended and what was skipped
RECURSIVE TakeLinks(_, _, _, _, _)
TakeLinks(rest, batch, seen_links, placed, skipped) ==
    IF rest = <<>>
    THEN [rest |-> rest, batch |-> batch, placed |-> placed, skipped |-> skipped, yield |-> FALSE]
    ELSE IF Excluded(Head(rest), seen_links)
         THEN TakeLinks(Tail(rest), batch, seen_links, placed, skipped \cup {Head(rest)})
         ELSE LET b == Append(batch, Head(rest))
                  p == Append(placed, Head(rest))
              IN  IF BatchFull(b)
                  THEN [rest |-> Tail(rest), batch |-> b, placed |-> p, skipped |-> skipped, yield |-> TRUE]
                  ELSE TakeLinks(Tail(rest), b, seen_links, p, skipped)

\* the generator runs over `links` until it yields or the page is used up;
\* seen_links is the matcher's live sent_cache
Advance(links) ==
    LET t == TakeLinks(links, g_batch, sent_cache, <<>>, {})
    IN  /\ g_rest' = t.rest
        /\ g_out' = g_out \o t.placed
        /\ g_skipped' = g_skipped \cup t.skipped
        /\ IF t.yield
           THEN /\ links_chunk' = t.batch
                /\ g_batch' = <<>>
                /\ pc' = "extract"
           ELSE /\ g_batch' = t.batch
                /\ pc' = "discover"
                /\ UNCHANGED links_chunk

\* a walk that goes one page beyond max_pages
MorePagesOneExtra == g_page < MaxPages + 1

\* `range(1, max_pages + 1)` has a further page index
MorePages == g_page < MaxPages

\* `for page in range(1, max_pages + 1):` the next page is fetched and its links
\* are walked
ScrapePage(res) ==
    /\ pc = "discover"
    /\ ~g_ended
    /\ g_rest = <<>>
    /\ MorePages
    /\ g_page' = g_page + 1
    /\ g_status' = Append(g_status, res.status)
    /\ g_links' = g_links \o get_item_links(res)
    /\ Advance(get_item_links(res))
    /\ UNCHANGED <<g_ended, driver, r_cars, r_cause, r_failed, mailed, r_start, matcherVars, storeVars>>
    /\ UNCHANGED opsVars

\* the generator is resumed in the middle of a page
ResumePage ==
    /\ pc = "discover"
    /\ ~g_ended
    /\ g_rest # <<>>
    /\ Advance(g_rest)
    /\ UNCHANGED <<g_page, g_status, g_ended, g_links, driver, r_cars, r_cause, r_failed, mailed, r_start, matcherVars, storeVars>>
    /\ UNCHANGED opsVars

\* the loop over the pages is over: `if batch: yield batch`
EndWalk ==
    /\ pc = "discover"
    /\ ~g_ended
    /\ g_rest = <<>>
    /\ ~MorePages
    /\ g_ended' = TRUE
    /\ IF FinalFlush(g_batch)
       THEN /\ links_chunk' = g_batch
            /\ g_batch' = <<>>
            /\ pc' = "extract"
       ELSE /\ pc' = "finish"
            /\ UNCHANGED <<links_chunk, g_batch>>
    /\ UNCHANGED <<g_page, g_status, g_rest, g_out, g_skipped, g_links, driver, r_cars, r_cause, r_failed, mailed, r_start, matcherVars, storeVars>>
    /\ UNCHANGED opsVars

\* the generator is resumed after its last yield and returns
Exhausted ==
    /\ pc = "discover"
    /\ g_ended
    /\ pc' = "finish"
    /\ UNCHANGED <<driver, g_page, g_status, g_rest, g_batch, g_ended, g_out, g_skipped, g_links, links_chunk, r_cars, r_cause, r_failed, mailed, r_start, matcherVars, storeVars>>
    /\ UNCHANGED opsVars

\* the body of the caller's `for` loop, seen from the generator: the batch is
\* taken and the identities of some of its cars are added to the live sent_cache
Consume(hits) ==
    /\ pc = "extract"
    /\ hits \subseteq Range(links_chunk)
    /\ sent_cache' = sent_cache \cup hits
    /\ pc' = "discover"
    /\ UNCHANGED <<cache_file, queries_file, m_cars, m_before, m_log, m_hits, m_ret, alerts, storeVars>>
    /\ UNCHANGED <<driver, g_page, g_status, g_rest, g_batch, g_ended, g_out, g_skipped, g_links, links_chunk, r_cars, r_cause, r_failed, mailed, r_start>>
    /\ UNCHANGED opsVars

\* the caller leaves its `for` loop with a batch in hand (an exception in one of
\* its stages): the generator is not resumed again
Abandon ==
    /\ pc = "extract"
    /\ pc' = "exited"
    /\ r_cause' = "abandoned"
    /\ UNCHANGED <<driver, genVars, links_chunk, r_cars, r_failed, mailed, r_start, matcherVars, storeVars, opsVars>>

ScrapeStep == \E res \in FetchResults : ScrapePage(res)

ConsumeStep == \E hits \in SUBSET Ids : Consume(hits)

PaginatorNext == ScrapeStep \/ ResumePage \/ EndWalk \/ Exhausted \/ ConsumeStep \/ Abandon

\* scrape_all_links(base_url, max_pages, batch_size, seen_links=matcher.sent_cache)
\* has been called: nothing fetched yet, any set of identities already alerted
PaginatorInit ==
    /\ sent_cache \in SUBSET Ids
    /\ cache_file = sorted(sent_cache)
    /\ queries_file = <<>>
    /\ m_cars = <<>>
    /\ m_before = sent_cache
    /\ m_log = {}
    /\ m_hits = <<>>
    /\ m_ret = "none"
    /\ alerts = [u \in Ids |-> 0]
    /\ pc = "discover"
    /\ driver = "open"
    /\ g_page = 0
    /\ g_status = <<>>
    /\ g_rest = <<>>
    /\ g_batch = <<>>
    /\ g_ended = FALSE
    /\ g_out = <<>>
    /\ g_skipped = {}
    /\ g_links = <<>>
    /\ links_chunk = <<>>
    /\ r_cars = <<>>
    /\ r_cause = "none"
    /\ r_failed = {}
    /\ mailed = 0
    /\ r_start = sent_cache
    /\ runs = 1
    /\ k_batch = <<>>
    /\ r_prior = {}
    /\ r_queries = {}
    /\ v_out = <<>>
    /\ slept = 0
    /\ EditorIdle
    /\ SchedIdle

InitPaginator == PaginatorInit /\ StoreIdle

SpecPaginator == InitPaginator /\ [][PaginatorNext]_vars


---------------------------------------------------------------------------
\* Claims about the paginator

\* the generator hands a batch to its caller in this step
Yields == pc = "discover" /\ pc' = "extract"

\* C13: every yielded batch is non-empty and has at most batch_size identities;
\* every batch yielded before the end of the page walk has exactly batch_size; at
\* the end of the walk a final batch, the buffer, is yielded if and only if the
\* buffer is non-empty.
BatchesWellSized ==
    [][/\ Yields => /\ links_chunk' # <<>>
                    /\ Len(links_chunk') <= BatchSize
                    /\ (~g_ended' => Len(links_chunk') = BatchSize)
       /\ (~g_ended /\ g_ended') => /\ Yields <=> (g_batch # <<>>)
                                    /\ Yields => links_chunk' = g_batch]_vars

\* a walk that yielded a full batch and then, at its end, a partial one
BatchesWellSizedWitness ==
    /\ g_ended
    /\ pc = "extract"
    /\ Len(links_chunk) < BatchSize
    /\ Len(g_out) > BatchSize

\* the concatenation of the batches yielded so far
Yielded == SubSeq(g_out, 1, Len(g_out) - Len(g_batch))

\* C14: no identity appears more than once in the concatenation of the batches
\* yielded by one walk.
NoIdentityYieldedTwice ==
    \A i, j \in DOMAIN Yielded : i # j => Yielded[i] # Yielded[j]

\* the links appended to the buffer in this step
NewlyPlaced == {g_out'[i] : i \in (Len(g_out) + 1)..Len(g_out')}

\* C15: no identity is placed into a batch while it is in the exclusion set
\* (the matcher's sent_cache) at the moment the walk comes to its link.
NeverPlacesExcluded == [][NewlyPlaced \cap sent_cache = {}]_vars

\* an identity was yielded, became alerted, and was skipped when a later page
\* listed it again
NeverPlacesExcludedWitness == g_skipped \cap Range(g_out) # {}

\* the page fetched in this step ended with the given status
Fetched(status) == g_page' = g_page + 1 /\ g_status'[g_page'] = status

\* C16: a page whose fetch fails counts as an empty page: the buffer and the
\* links placed so far are as before, the walk neither yields nor ends on it,
\* pages are visited one index after the other, and the walk ends only after
\* page max_pages.
FailedPageIsEmptyPage ==
    [][/\ Fetched("error") => /\ g_batch' = g_batch
                              /\ g_out' = g_out
                              /\ pc' = "discover"
                              /\ ~g_ended'
       /\ g_page' \in {g_page, g_page + 1}
       /\ g_ended' => g_page' = MaxPages]_vars

\* a walk with a failed page that went on to its end and yielded the links of
\* its other pages
FailedPageIsEmptyPageWitness ==
    /\ \E i \in DOMAIN g_status : g_status[i] = "error"
    /\ g_ended
    /\ pc = "extract"
    /\ links_chunk # <<>>

\* C17: a failure of the browser session while a page's links are listed ends
\* the run with an error; the walk does not go on.
SessionFailureIsFatal == [][Fetched("session") => pc' = "exited"]_vars

\* C28: the walk is lazy and single-pass: a page is fetched only when the
\* consumer has asked for a batch, the links of the pages fetched so far are
\* used up and the buffer is not full; the page fetched is the next index, never
\* beyond max_pages; while the consumer holds a batch, and after it has stopped
\* consuming, nothing is fetched and the generator does not move; and once the
\* walk has ended no page is fetched.
LazySinglePass ==
    [][/\ g_page' # g_page => /\ pc = "discover"
                              /\ g_rest = <<>>
                              /\ Len(g_batch) < BatchSize
                              /\ g_page' = g_page + 1
                              /\ g_page' <= MaxPages
       /\ pc # "discover" => <<g_page, g_status, g_rest, g_batch, g_ended, g_out>>' = <<g_page, g_status, g_rest, g_batch, g_ended, g_out>>
       /\ g_ended => g_page' = g_page]_vars

\* the consumer stopped after a batch and the pages after it were never fetched
LazySinglePassWitness ==
    /\ pc = "exited"
    /\ links_chunk # <<>>
    /\ g_page < MaxPages


---------------------------------------------------------------------------
\* orchestrator.py: run_daily_job

\* the listings of the site during a run
RunIds == 1..(NumIds + 1)

\* `parser = ArticleLinkParser(...)`: the browser is started; when that fails
\* the run ends with no session to release
CreateParser(ok) ==
    /\ pc = "idle"
    /\ IF ok
       THEN pc' = "matcher" /\ driver' = "open" /\ UNCHANGED r_cause
       ELSE pc' = "exited" /\ r_cause' = "parser" /\ UNCHANGED driver
    /\ UNCHANGED <<genVars, links_chunk, r_cars, r_failed, mailed, r_start, matcherVars, storeVars>>
    /\ UNCHANGED opsVars

\* `matcher = CarMatcher(str(MODEL_PATH))`, before the `try`: the model is loaded
\* and sent_cache is read from the cache file; an exception here leaves
\* run_daily_job without reaching the `finally`
CreateMatcher(ok) ==
    /\ pc = "matcher"
    /\ IF ok
       THEN /\ sent_cache' = LoadCache(cache_file)
            /\ m_before' = LoadCache(cache_file)
            /\ r_start' = LoadCache(cache_file)
            /\ pc' = "discover"
            /\ UNCHANGED r_cause
       ELSE /\ pc' = "exited"
            /\ r_cause' = "matcher"
            /\ UNCHANGED <<sent_cache, m_before, r_start>>
    /\ UNCHANGED <<cache_file, queries_file, m_cars, m_log, m_hits, m_ret, alerts>>
    /\ UNCHANGED <<driver, genVars, links_chunk, r_cars, r_failed, mailed, storeVars>>
    /\ UNCHANGED opsVars

\* `cars = [parse_vehicle(parser, url) for url in links_chunk]`: bad holds the
\* listings whose page cannot be fetched or parsed; the comprehension has no
\* handler, so the first of them ends the run through the `finally`
ParseCars(bad) ==
    /\ pc = "extract"
    /\ r_failed' = Range(links_chunk) \cap bad
    /\ IF Range(links_chunk) \cap bad = {}
       THEN /\ r_cars' = links_chunk
            /\ pc' = "store"
            /\ UNCHANGED <<driver, r_cause>>
       ELSE /\ pc' = "exited"
            /\ r_cause' = "extract"
            /\ driver' = "closed"
            /\ UNCHANGED r_cars

\* the extraction stage of run_daily_job, the time it takes left aside
ParseBatch(bad) ==
    /\ ParseCars(bad)
    /\ UNCHANGED <<genVars, links_chunk, mailed, r_start, matcherVars, storeVars>>
    /\ UNCHANGED opsVars

\* a run that hands the batch to match without having stored it
StoreBatchSkipped(ok) ==
    /\ pc = "store"
    /\ pc' = "match"
    /\ UNCHANGED <<driver, r_cause, storeVars>>
    /\ UNCHANGED <<genVars, links_chunk, r_cars, r_failed, mailed, r_start, matcherVars>>
    /\ UNCHANGED opsVars

\* `_save_batch_to_yaml(cars, logger)`: an exception of the file system, taken
\* at the first access, ends the run through the `finally`
StoreBatch(ok) ==
    /\ pc = "store"
    /\ IF ok
       THEN /\ SaveCall(r_cars)
            /\ pc' = "match"
            /\ UNCHANGED <<driver, r_cause>>
       ELSE /\ pc' = "exited"
            /\ r_cause' = "store"
            /\ driver' = "closed"
            /\ UNCHANGED storeVars
    /\ UNCHANGED <<genVars, links_chunk, r_cars, r_failed, mailed, r_start, matcherVars>>
    /\ UNCHANGED opsVars

\* `hits = matcher.match(cars, ...)`: an exception of match ends the run
\* through the `finally`
MatchBatch ==
    /\ pc = "match"
    /\ MatchCall(r_cars)
    /\ IF m_ret' = "raised"
       THEN /\ pc' = "exited"
            /\ r_cause' = "match"
            /\ driver' = "closed"
       ELSE /\ pc' = "dispatch"
            /\ UNCHANGED <<driver, r_cause>>
    /\ UNCHANGED <<genVars, links_chunk, r_cars, r_failed, mailed, r_start, storeVars>>
    /\ r_queries' = r_queries \cup {queries_file}
    /\ UNCHANGED lifeVars

\* a count of the batches with hits in place of the hits
DispatchCountsBatches ==
    /\ pc = "dispatch"
    /\ mailed' = IF m_hits # <<>> THEN mailed + 1 ELSE mailed
    /\ pc' = "discover"
    /\ UNCHANGED r_start
    /\ UNCHANGED <<driver, genVars, links_chunk, r_cars, r_cause, r_failed, matcherVars, storeVars>>
    /\ UNCHANGED opsVars

\* `if hits: mailed += len(hits)`; the e-mail call is commented out
Dispatch ==
    /\ pc = "dispatch"
    /\ mailed' = IF m_hits # <<>> THEN mailed + Len(m_hits) ELSE mailed
    /\ pc' = "discover"
    /\ UNCHANGED r_start
    /\ UNCHANGED <<driver, genVars, links_chunk, r_cars, r_cause, r_failed, matcherVars, storeVars>>
    /\ UNCHANGED opsVars

\* the loop is over: the closing log line, then `finally: parser.close()`
Finish ==
    /\ pc = "finish"
    /\ pc' = "done"
    /\ driver' = "closed"
    /\ UNCHANGED <<genVars, links_chunk, r_cars, r_cause, r_failed, mailed, r_start, matcherVars, storeVars>>
    /\ UNCHANGED opsVars

\* the result pages of a run: item links of the listings, or a failed fetch
RunFetchResults ==
    [status : {"ok"}, links : SeqsUpTo([id : RunIds, kind : {"content"}], MaxLinks)]
        \cup [status : {"error"}, links : {<<>>}]

RunScrapeStep == \E res \in RunFetchResults : ScrapePage(res)

RunNext ==
    \/ \E ok \in BOOLEAN : CreateParser(ok)
    \/ \E ok \in BOOLEAN : CreateMatcher(ok)
    \/ RunScrapeStep
    \/ ResumePage
    \/ EndWalk
    \/ Exhausted
    \/ \E bad \in SUBSET RunIds : ParseBatch(bad)
    \/ \E ok \in BOOLEAN : StoreBatch(ok)
    \/ MatchBatch
    \/ Dispatch
    \/ Finish

\* run_daily_job is called: no parser and no matcher yet; the data directory is
\* empty or holds ten shards of earlier runs; the cache file holds the
\* identities alerted by earlier runs
RunInit ==
    /\ RunIdle
    /\ sent_cache = {}
    /\ cache_file \in {<<>>, <<1>>}
    /\ queries_file \in QueryLists
    /\ m_cars = <<>>
    /\ m_before = {}
    /\ m_log = {}
    /\ m_hits = <<>>
    /\ m_ret = "none"
    /\ alerts = [u \in RunIds |-> 0]
    /\ files \in {<<>>, AgedDisk({})}
    /\ s_batch = <<>>
    /\ s_added = 0
    /\ s_current = 0
    /\ s_highest = 0
    /\ s_rolled = <<>>
    /\ r_prior = StoredIds(files) \cup LoadCache(cache_file)

SpecRun == RunInit /\ [][RunNext]_vars


---------------------------------------------------------------------------
\* Claims about run_daily_job

\* the run is over and nothing failed in it: no stage raised and every page was
\* fetched
CompletedWithoutFailures ==
    /\ pc = "done"
    /\ r_cause = "none"
    /\ \A i \in DOMAIN g_status : g_status[i] = "ok"

\* C12: after a run that completes without failures the record store holds a
\* record for every identity the paginator yielded during the run.
StoreHoldsYielded == CompletedWithoutFailures => Range(g_out) \subseteq StoredIds(files)

\* C18: when the extraction of an identity of a batch fails, only that identity
\* is dropped: the run goes on to store the other identities of the batch.
DropsOnlyFailedIdentity ==
    [][(pc = "extract" /\ r_failed' # {}) => /\ pc' = "store"
                                              /\ Range(r_cars') = Range(links_chunk) \ r_failed']_vars

\* C19: a failure while matching a batch, which is not a fatal one, does not
\* end the run: the orchestrator goes on to discover the next batch.
BatchFailureDoesNotEndRun ==
    [][(pc = "match" /\ m_ret' = "raised") => pc' = "discover"]_vars

\* C20: on every exit of run_daily_job the browser session that was opened at
\* its start has been closed.
ReleasedOnEveryExit == pc \in {"done", "exited"} => driver # "open"


\* the stages of a batch, in the order of the loop body
StageAfter(stage) ==
    CASE stage = "extract" -> {"store"}
      [] stage = "store" -> {"match"}
      [] stage = "match" -> {"dispatch"}
      [] stage = "dispatch" -> {"discover"}
      [] OTHER -> {}

BatchStages == {"extract", "store", "match", "dispatch"}

\* C21: within a run the stages of a batch follow one another in the order
\* extract, store, match, dispatch; while a batch is in one of its stages no page
\* is fetched and no link is taken for the next batch; the record store changes
\* only in the store stage and the seen set only in the match stage (or when
\* the matcher is constructed); and every identity that match adds to the seen
\* set is among the records the same batch passed to the record store append.
StagesInOrder ==
    [][/\ pc \in BatchStages => pc' \in StageAfter(pc) \cup {pc, "exited"}
       /\ pc \in BatchStages => /\ <<g_page, g_rest, g_batch, g_out>>' = <<g_page, g_rest, g_batch, g_out>>
                                /\ links_chunk' = links_chunk
       /\ files' # files => pc = "store"
       /\ sent_cache' # sent_cache => pc \in {"match", "matcher"}
       /\ pc = "match" => /\ m_cars' = s_batch
                          /\ s_batch = links_chunk
                          /\ (sent_cache' \ sent_cache) \subseteq Range(s_batch)]_vars

\* a later batch of a run was stored and matched and gave a hit
StagesInOrderWitness ==
    /\ pc = "dispatch"
    /\ m_hits # <<>>
    /\ Len(g_out) > Len(links_chunk)
    /\ s_batch = links_chunk


---------------------------------------------------------------------------
\* The pipeline over several runs: the process may be killed, run_daily_job is
\* started again, and the query editor (gui/app.py) saves the query file

\* bound: the number of times run_daily_job is started
MaxRuns == 2

\* `open("w")` and write_text empty the file and then write the new text: when
\* the process dies in between, the file holds a proper prefix of the new text
TornPrefixes(content) == {SubSeq(content, 1, k) : k \in 0..(Len(content) - 1)}

\* the shard files that _save_batch_to_yaml(batch) writes, in the order of the
\* writes: the current shard at each rollover, and the tail file `if added`
WrittenFiles(disk, batch) ==
    LET st == StoreLoop(batch, 1, LoadLatest(disk))
    IN  IF st.added = 0 THEN <<>> ELSE <<LoadLatest(disk).current>> \o st.rolled

\* the disk when the process dies in the k-th write of _save_batch_to_yaml(batch),
\* which has put the records `torn` into its file
KilledDisk(disk, batch, k, torn) ==
    LET r == SaveResult(disk, batch)
        w == WrittenFiles(disk, batch)
    IN  [n \in DOMAIN disk \cup {w[i] : i \in 1..k} |->
            IF \E i \in 1..(k - 1) : w[i] = n THEN r.disk[n]
            ELSE IF n = w[k] THEN torn
            ELSE disk[n]]

\* the process is killed while _save_batch_to_yaml(cars) writes a shard file
\* (yaml.safe_dump writes the records in the order of their keys)
KilledInStore ==
    /\ pc = "store"
    /\ \E k \in 1..Len(WrittenFiles(files, r_cars)) :
         \E t \in TornPrefixes(sorted(SaveResult(files, r_cars).disk[WrittenFiles(files, r_cars)[k]])) :
            files' = KilledDisk(files, r_cars, k, Range(t))
    /\ s_batch' = r_cars
    /\ pc' = "killed"
    /\ r_cause' = "kill_store"
    /\ UNCHANGED <<s_added, s_current, s_highest, s_rolled, matcherVars, opsVars>>
    /\ UNCHANGED <<driver, genVars, links_chunk, r_cars, r_failed, mailed, r_start>>

\* the process is killed while match, having found hits, writes the cache file:
\* `_save(CACHE_FILE, sorted(self.sent_cache))`
KilledInMatch ==
    /\ pc = "match"
    /\ LET start == [cache |-> sent_cache, hits |-> <<>>, log |-> {}, raised |-> FALSE]
       IN  \E st \in MatchLoop(r_cars, queries_file, 1, <<>>, start) :
             /\ ~st.raised
             /\ st.hits # <<>>
             /\ cache_file' \in TornPrefixes(sorted(st.cache))
             /\ sent_cache' = st.cache
             /\ m_cars' = r_cars
             /\ m_before' = sent_cache
             /\ m_log' = st.log
             /\ m_hits' = st.hits
    /\ m_ret' = "killed"
    /\ pc' = "killed"
    /\ r_cause' = "kill_match"
    /\ r_queries' = r_queries \cup {queries_file}
    /\ UNCHANGED <<queries_file, alerts, storeVars, lifeVars>>
    /\ UNCHANGED <<driver, genVars, links_chunk, r_cars, r_failed, mailed, r_start>>

\* the process is killed after a batch went through its stages and before the
\* next batch is yielded
KilledBetweenBatches ==
    /\ pc = "discover"
    /\ links_chunk # <<>>
    /\ k_batch' = links_chunk
    /\ pc' = "killed"
    /\ r_cause' = "kill_between"
    /\ UNCHANGED <<runs, r_prior, r_queries, v_out, slept, editorVars, schedVars, matcherVars, storeVars>>
    /\ UNCHANGED <<driver, genVars, links_chunk, r_cars, r_failed, mailed, r_start>>

\* run_daily_job begins once more: its locals and a new matcher, the files as
\* they are
FreshRun ==
    /\ runs' = runs + 1
    /\ r_prior' = StoredIds(files) \cup LoadCache(cache_file)
    /\ r_queries' = {}
    /\ pc' = "idle"
    /\ driver' = "none"
    /\ g_page' = 0
    /\ g_status' = <<>>
    /\ g_rest' = <<>>
    /\ g_batch' = <<>>
    /\ g_ended' = FALSE
    /\ g_out' = <<>>
    /\ g_skipped' = {}
    /\ g_links' = <<>>
    /\ links_chunk' = <<>>
    /\ r_cars' = <<>>
    /\ r_cause' = "none"
    /\ r_failed' = {}
    /\ mailed' = 0
    /\ r_start' = {}
    /\ sent_cache' = {}
    /\ m_cars' = <<>>
    /\ m_before' = {}
    /\ m_log' = {}
    /\ m_hits' = <<>>
    /\ m_ret' = "none"
    /\ s_batch' = <<>>
    /\ s_added' = 0
    /\ s_current' = 0
    /\ s_highest' = 0
    /\ s_rolled' = <<>>
    /\ UNCHANGED <<cache_file, queries_file, alerts, files, k_batch, v_out, slept, editorVars>>

\* run_daily_job is started again, by the scheduler or by hand, after a run that
\* ended or was killed between two batches
Restart ==
    /\ pc = "done" \/ (pc = "killed" /\ r_cause = "kill_between")
    /\ runs < MaxRuns
    /\ FreshRun
    /\ UNCHANGED schedVars

\* gui/app.py save_queries(rows): the editor writes the query file
save_queries(new_rows) ==
    /\ queries_file' = new_rows
    /\ UNCHANGED <<sent_cache, cache_file, m_cars, m_before, m_log, m_hits, m_ret, alerts>>
    /\ UNCHANGED <<storeVars, runVars, opsVars>>

\* the result pages: item links of the listings
OpsFetchResults == [status : {"ok"}, links : SeqsUpTo([id : Ids, kind : {"content"}], MaxLinks)]

OpsNext ==
    \/ CreateParser(TRUE)
    \/ CreateMatcher(TRUE)
    \/ \E res \in OpsFetchResults : ScrapePage(res)
    \/ ResumePage
    \/ EndWalk
    \/ Exhausted
    \/ ParseBatch({})
    \/ StoreBatch(TRUE)
    \/ MatchBatch
    \/ Dispatch
    \/ Finish
    \/ KilledInStore
    \/ KilledInMatch
    \/ KilledBetweenBatches
    \/ Restart
    \/ \E new_rows \in QueryLists : save_queries(new_rows)

\* the first start of run_daily_job: an empty data directory, no cache file
OpsInit ==
    /\ RunIdle
    /\ MatcherIdle
    /\ StoreIdle
    /\ r_prior = {}

SpecOps == OpsInit /\ [][OpsNext]_vars


---------------------------------------------------------------------------
\* Claims about the pipeline over several runs

\* C22: when the process is killed, every shard file holds either the content it
\* had before the interrupted call or the complete content the call was to give
\* it, and the cache file holds either its previous list or the complete new list.
WritesAtomic ==
    [][pc' = "killed" =>
         /\ cache_file' \in {cache_file, sorted(sent_cache')}
         /\ \A n \in DOMAIN files' :
              \/ n \in DOMAIN files /\ files'[n] = files[n]
              \/ files'[n] = SaveResult(files, s_batch').disk[n]]_vars

\* the number of shards that hold a record of the identity
Copies(disk, url) == Cardinality({n \in DOMAIN disk : url \in disk[n]})

\* C23: when the pipeline was killed between two batches and the run that was
\* started again has ended without a failure, each identity of the batch that
\* was complete at the kill has exactly one record in the store.
RestartKeepsOneCopy ==
    (runs > 1 /\ k_batch # <<>> /\ pc = "done" /\ r_cause = "none")
        => \A i \in DOMAIN k_batch : Copies(files, k_batch[i]) = 1


---------------------------------------------------------------------------
\* Further claims about CarMatcher, checked under SpecMatcher

\* C24: the seen set is persisted once per batch: a match call that returns
\* hits leaves the cache file equal to the sorted in-memory set, a call that
\* returns no hits leaves the file and the set as they were; so after every
\* returned call, and at the start of a run, the file and the set hold the same
\* identities, and every returned hit is in the file before the caller goes on
\* to dispatch.
SeenPersistedPerBatch ==
    [][/\ m_ret' = "returned" =>
            /\ m_hits' = <<>> => (cache_file' = cache_file /\ sent_cache' = sent_cache)
            /\ m_hits' # <<>> => cache_file' = sorted(sent_cache')
            /\ LoadCache(cache_file') = sent_cache'
            /\ \A i \in DOMAIN m_hits' : m_hits'[i][1] \in LoadCache(cache_file')
       /\ m_ret' = "none" => LoadCache(cache_file') = sent_cache']_vars

\* a call that found identities already seen and returned a new hit
SeenPersistedPerBatchWitness ==
    /\ m_ret = "returned"
    /\ m_hits # <<>>
    /\ m_before # {}
    /\ cache_file = sorted(sent_cache)
    /\ Len(cache_file) > Len(m_hits)


OneQueryListPerRun == Cardinality(r_queries) <= 1

\* C27: a run yields no identity that an earlier run has alerted or stored:
\* nothing yielded in a batch was in the seen list or in the record store when
\* the run began.
SkipsHandledByEarlierRun == runs > 1 => Range(Yielded) \cap r_prior = {}


---------------------------------------------------------------------------
\* The politeness delay: ArticleLinkParser.human_delay and its callers. Times are
\* in tenths of a second.

\* the delay_range of the parser: the delay removed, and the default (1, 3)
DelayRanges == {<<0, 0>>, <<10, 30>>}

\* random.uniform(lo, hi), taken at its lower or at its upper end
Draws == {0, 1}

uniform(lo, hi, rnd) == IF rnd = 0 THEN lo ELSE hi

\* human_delay() with no arguments: `time.sleep(random.uniform(lo, hi))` over
\* self.delay_range; the time slept
human_delay(delay_range, rnd) == uniform(delay_range[1], delay_range[2], rnd)

\* scroll_page(): three scrolls with human_delay(0.5, 1.5), then human_delay(1, 2)
scroll_page(rnd) == uniform(5, 15, rnd) + uniform(5, 15, rnd) + uniform(5, 15, rnd) + uniform(10, 20, rnd)

\* a browser session that does not survive a wait of three seconds
GetVehicleSoupImpatient(url, delay_range, rnd, bad) ==
    IF url \in bad \/ human_delay(delay_range, rnd) >= 30
    THEN [ok |-> FALSE, slept |-> human_delay(delay_range, rnd)]
    ELSE [ok |-> TRUE, slept |-> human_delay(delay_range, rnd) + scroll_page(rnd)]

\* get_vehicle_soup(vehicle_url): human_delay(), driver.get, scroll_page(), the
\* page source; driver.get raises for the listings in bad
get_vehicle_soup(url, delay_range, rnd, bad) ==
    IF url \in bad
    THEN [ok |-> FALSE, slept |-> human_delay(delay_range, rnd)]
    ELSE [ok |-> TRUE, slept |-> human_delay(delay_range, rnd) + scroll_page(rnd)]

\* `[parse_vehicle(parser, url) for url in links_chunk]` from index i on
RECURSIVE ParseFrom(_, _, _, _, _, _)
ParseFrom(chunk, i, delay_range, rnd, bad, acc) ==
    IF i > Len(chunk)
    THEN acc
    ELSE LET soup == get_vehicle_soup(chunk[i], delay_range, rnd, bad)
         IN  IF soup.ok
             THEN ParseFrom(chunk, i + 1, delay_range, rnd, bad,
                            [acc EXCEPT !.cars = Append(@, chunk[i]), !.slept = @ + soup.slept])
             ELSE [acc EXCEPT !.raised = TRUE, !.slept = @ + soup.slept]

\* the extraction stage of run_daily_job with the time it sleeps
ParseBatchTimed(bad, delay_range, rnd) ==
    /\ pc = "extract"
    /\ LET r == ParseFrom(links_chunk, 1, delay_range, rnd, bad,
                          [cars |-> <<>>, slept |-> 0, raised |-> FALSE])
       IN  /\ slept' = r.slept
           /\ r_failed' = Range(links_chunk) \cap bad
           /\ IF r.raised
              THEN /\ pc' = "exited"
                   /\ r_cause' = "extract"
                   /\ driver' = "closed"
                   /\ UNCHANGED r_cars
              ELSE /\ r_cars' = r.cars
                   /\ pc' = "store"
                   /\ UNCHANGED <<driver, r_cause>>
    /\ UNCHANGED <<genVars, links_chunk, mailed, r_start, matcherVars, storeVars>>
    /\ UNCHANGED <<runs, k_batch, r_prior, r_queries, v_out, editorVars, schedVars>>

\* the result pages of the catalog: one listing, or all of them in order
DelayFetchResults ==
    [status : {"ok"},
     links : {<<[id |-> i, kind |-> "content"]>> : i \in Ids}
                \cup {[i \in 1..NumIds |-> [id |-> i, kind |-> "content"]]}]

DelayNext ==
    \/ CreateParser(TRUE)
    \/ CreateMatcher(TRUE)
    \/ \E res \in DelayFetchResults : ScrapePage(res)
    \/ ResumePage
    \/ EndWalk
    \/ Exhausted
    \/ \E bad \in SUBSET Ids, delay_range \in DelayRanges, rnd \in Draws : ParseBatchTimed(bad, delay_range, rnd)
    \/ StoreBatch(TRUE)
    \/ MatchBatch
    \/ Dispatch
    \/ Finish

\* a first run with some saved queries
DelayInit ==
    /\ RunIdle
    /\ MatcherInit
    /\ StoreIdle
    /\ r_prior = {}

SpecDelay == DelayInit /\ [][DelayNext]_vars

\* C29: the politeness delay does not affect results: whatever the delay range
\* and whatever the time slept, an extraction stage gives the records, the
\* failures and the next stage that the extraction without any sleeping gives,
\* and changes nothing else of the run, the seen set or the record store.
DelayDoesNotMatter ==
    [][pc = "extract" => /\ ParseCars(r_failed')
                         /\ UNCHANGED <<genVars, links_chunk, mailed, r_start, matcherVars, storeVars>>]_vars

\* a full batch was extracted with the longest sleeps of the default delay
DelayDoesNotMatterWitness ==
    /\ pc = "store"
    /\ Len(r_cars) = BatchSize
    /\ slept = BatchSize * (human_delay(<<10, 30>>, 1) + scroll_page(1))


---------------------------------------------------------------------------
\* scraper.py: vehicle_generator, a generator of vehicle records over the walk of
\* scrape_all_links.

\* what driver.get does with the argument of get_vehicle_soup: the session
\* refuses an argument that is no string, the page load fails, or the page loads
VgOutcomes == {"rejected", "failed", "accepted"}

\* `parser = ArticleLinkParser(headless=True, delay_range=(1, 2))`, before the
\* `try`, and `links = parser.scrape_all_links(base_url, max_pages)`: the default
\* batch size and no seen_links
VgStart(ok) ==
    /\ pc = "idle"
    /\ IF ok
       THEN pc' = "discover" /\ driver' = "open" /\ UNCHANGED r_cause
       ELSE pc' = "exited" /\ r_cause' = "parser" /\ UNCHANGED driver
    /\ UNCHANGED <<genVars, links_chunk, r_cars, r_failed, mailed, r_start, matcherVars, storeVars>>
    /\ UNCHANGED opsVars

\* the body of `for url in links:` where url is what scrape_all_links yields, a
\* batch: get_vehicle_soup(url), the two parses and the `yield` of a record with
\* "url": url; an exception leaves through the `finally`
VgParse(outcome, rnd) ==
    /\ pc = "extract"
    /\ IF outcome = "accepted"
       THEN /\ v_out' = Append(v_out, [list |-> TRUE, links |-> links_chunk])
            /\ slept' = human_delay(<<10, 20>>, rnd) + scroll_page(rnd)
            /\ pc' = "discover"
            /\ UNCHANGED <<driver, r_cause>>
       ELSE /\ pc' = "exited"
            /\ r_cause' = IF outcome = "rejected" THEN "argument" ELSE "extract"
            /\ slept' = human_delay(<<10, 20>>, rnd)
            /\ driver' = "closed"
            /\ UNCHANGED v_out
    /\ UNCHANGED <<genVars, links_chunk, r_cars, r_failed, mailed, r_start, matcherVars, storeVars>>
    /\ UNCHANGED <<runs, k_batch, r_prior, r_queries, editorVars, schedVars>>

\* the walk is exhausted: `finally: parser.close()`
VgFinish ==
    /\ pc = "finish"
    /\ pc' = "done"
    /\ driver' = "closed"
    /\ UNCHANGED <<genVars, links_chunk, r_cars, r_cause, r_failed, mailed, r_start, matcherVars, storeVars>>
    /\ UNCHANGED opsVars

ScraperNext ==
    \/ \E ok \in BOOLEAN : VgStart(ok)
    \/ \E res \in FetchResults : ScrapePage(res)
    \/ ResumePage
    \/ EndWalk
    \/ Exhausted
    \/ \E outcome \in VgOutcomes, rnd \in Draws : VgParse(outcome, rnd)
    \/ VgFinish

\* vehicle_generator has been called and not yet advanced
ScraperInit ==
    /\ RunIdle
    /\ MatcherIdle
    /\ StoreIdle
    /\ r_prior = {}

SpecScraper == ScraperInit /\ [][ScraperNext]_vars

\* the records the claim expects for the item URLs the walk gave out
OnePerUrl == [i \in DOMAIN Yielded |-> [list |-> FALSE, links |-> <<Yielded[i]>>]]

\* C30: when vehicle_generator is exhausted, or has ended on the browser's
\* refusal of its own argument, it has yielded exactly one record per discovered
\* item URL, each with that single URL as its "url" field; when it is exhausted
\* or has failed the browser session is closed.
VehiclePerUrl ==
    /\ (pc = "done" \/ (pc = "exited" /\ r_cause = "argument")) => v_out = OnePerUrl
    /\ (pc = "done" \/ (pc = "exited" /\ r_cause # "parser")) => driver = "closed"


---------------------------------------------------------------------------
\* gui/app.py: the query editor QueryGUI. Texts are short strings; row positions
\* are 1-based (the tree's iid is the 0-based index).

\* how many rows the editor is taken to
MaxRows == 2

\* how many row lists the undo stack is taken to
MaxEdits == 2

\* how many undos, and redos, of one series are counted
MaxSeries == 2

\* what the Query entry can hold, and the Car brand entry
QueryEntries == {" ", "a "}

BrandEntries == {"", "x"}

\* str.strip() on the texts above
strip(text) == CASE text = " " -> "" [] text = "a " -> "a" [] OTHER -> text

\* load_queries(): the rows of the file, each rebuilt from its "query" and "brand"
load_queries(file) == [i \in DOMAIN file |-> [query |-> file[i].query, brand |-> file[i].brand]]

\* a duplicate test that looks at the first row only
IsDuplicateOfFirst(list, skip, q, b) ==
    \E i \in DOMAIN list : i = 1 /\ i # skip /\ list[i].query = q /\ list[i].brand = b

\* `any(i != idx and r["query"] == q and r["brand"] == b ...)`; add_row has no
\* row to skip (skip = 0)
IsDuplicate(list, skip, q, b) ==
    \E i \in DOMAIN list : i # skip /\ list[i].query = q /\ list[i].brand = b

\* a push that keeps the redo stack
PushUndoKeepsRedo(undo, redo, list) == [undo |-> Append(undo, list), redo |-> redo]

\* push_undo(): `undo_stack.append(deepcopy(rows)); redo_stack.clear()`
push_undo(undo, redo, list) == [undo |-> Append(undo, list), redo |-> <<>>]

\* a pop from the wrong end
PopOldest(stack) == [top |-> stack[1], rest |-> Tail(stack)]

\* list.pop(): the newest element and the stack without it
pop(stack) == [top |-> stack[Len(stack)], rest |-> SubSeq(stack, 1, Len(stack) - 1)]

\* list.pop(idx) for a 1-based position
RemoveAt(list, i) == SubSeq(list, 1, i - 1) \o SubSeq(list, i + 1, Len(list))

\* `for idx in sorted(sels, reverse=True): self.rows.pop(idx)`
RECURSIVE RemoveAll(_, _)
RemoveAll(list, sels) ==
    IF sels = {} THEN list
    ELSE LET m == CHOOSE x \in sels : \A y \in sels : y <= x
         IN  RemoveAll(RemoveAt(list, m), sels \ {m})

\* the handler op ran with these entry texts
Noted(op, q, b) == e_op' = op /\ e_query' = q /\ e_brand' = b

\* an edit was accepted: the list before it, and no series of undos is open
NotedEdit ==
    /\ e_pre' = rows
    /\ e_fresh' = TRUE
    /\ e_mark' = <<>>
    /\ e_undos' = 0
    /\ e_redos' = 0
    /\ e_idle' = FALSE

seriesVars == <<e_pre, e_fresh, e_mark, e_undos, e_redos, e_idle>>

\* nothing outside the editor changes
OnlyEditor ==
    /\ UNCHANGED <<sent_cache, cache_file, m_cars, m_before, m_log, m_hits, m_ret, alerts>>
    /\ UNCHANGED <<storeVars, runVars, runs, k_batch, r_prior, r_queries, v_out, slept, schedVars>>

\* the user selects rows in the tree
Select(sels) ==
    /\ gui = "open"
    /\ OnlyEditor
    /\ sels \subseteq DOMAIN rows
    /\ sels # selection
    /\ selection' = sels
    /\ Noted("select", "", "")
    /\ UNCHANGED <<rows, undo_stack, redo_stack, gui, seriesVars, queries_file>>

\* add_row(): Add or Enter with the two entries as they are
add_row(query, brand) ==
    /\ gui = "open"
    /\ OnlyEditor
    /\ Noted("add", query, brand)
    /\ LET q == strip(query)
           b == strip(brand)
       IN  IF q = "" \/ IsDuplicate(rows, 0, q, b)
           THEN UNCHANGED <<rows, undo_stack, redo_stack, selection, seriesVars>>
           ELSE /\ Len(rows) < MaxRows
                /\ Len(undo_stack) < MaxEdits
                /\ undo_stack' = push_undo(undo_stack, redo_stack, rows).undo
                /\ redo_stack' = push_undo(undo_stack, redo_stack, rows).redo
                /\ rows' = Append(rows, [query |-> q, brand |-> b])
                /\ selection' = {}
                /\ NotedEdit
    /\ UNCHANGED <<gui, queries_file>>

\* update_row(): Update with the current selection and entries
update_row(query, brand) ==
    /\ gui = "open"
    /\ OnlyEditor
    /\ Noted("update", query, brand)
    /\ IF Cardinality(selection) # 1
       THEN UNCHANGED <<rows, undo_stack, redo_stack, selection, seriesVars>>
       ELSE LET sel == CHOOSE i \in selection : TRUE
                row == rows[sel]
                new_q == IF strip(query) # "" THEN strip(query) ELSE row.query
                new_b == IF strip(brand) # "" THEN strip(brand) ELSE row.brand
            IN  IF IsDuplicate(rows, sel, new_q, new_b)
                THEN UNCHANGED <<rows, undo_stack, redo_stack, selection, seriesVars>>
                ELSE /\ Len(undo_stack) < MaxEdits
                     /\ undo_stack' = push_undo(undo_stack, redo_stack, rows).undo
                     /\ redo_stack' = push_undo(undo_stack, redo_stack, rows).redo
                     /\ rows' = [rows EXCEPT ![sel] = [query |-> new_q, brand |-> new_b]]
                     /\ selection' = {sel}
                     /\ NotedEdit
    /\ UNCHANGED <<gui, queries_file>>

\* delete_selected(): Delete with the current selection
delete_selected ==
    /\ gui = "open"
    /\ OnlyEditor
    /\ Noted("delete", "", "")
    /\ IF selection = {}
       THEN UNCHANGED <<rows, undo_stack, redo_stack, selection, seriesVars>>
       ELSE /\ Len(undo_stack) < MaxEdits
            /\ undo_stack' = push_undo(undo_stack, redo_stack, rows).undo
            /\ redo_stack' = push_undo(undo_stack, redo_stack, rows).redo
            /\ rows' = RemoveAll(rows, selection)
            /\ selection' = {}
            /\ NotedEdit
    /\ UNCHANGED <<gui, queries_file>>

\* undo(): Ctrl+Z. A series of undos begins with the first undo after an edit
\* or after a redo.
undo ==
    /\ gui = "open"
    /\ OnlyEditor
    /\ Noted("undo", "", "")
    /\ IF e_undos = 0 \/ e_redos > 0
       THEN /\ e_mark' = rows
            /\ e_undos' = 1
            /\ e_redos' = 0
            /\ e_idle' = (undo_stack = <<>>)
       ELSE /\ e_undos < MaxSeries
            /\ e_undos' = e_undos + 1
            /\ e_idle' = (e_idle \/ undo_stack = <<>>)
            /\ UNCHANGED <<e_mark, e_redos>>
    /\ IF undo_stack = <<>>
       THEN UNCHANGED <<rows, undo_stack, redo_stack, selection, e_pre, e_fresh>>
       ELSE /\ redo_stack' = Append(redo_stack, rows)
            /\ rows' = pop(undo_stack).top
            /\ undo_stack' = pop(undo_stack).rest
            /\ selection' = {}
            /\ e_fresh' = FALSE
            /\ UNCHANGED e_pre
    /\ UNCHANGED <<gui, queries_file>>

\* redo(): Ctrl+Y
redo ==
    /\ gui = "open"
    /\ OnlyEditor
    /\ Noted("redo", "", "")
    /\ e_redos < MaxSeries
    /\ e_redos' = IF e_undos > 0 THEN e_redos + 1 ELSE 0
    /\ UNCHANGED <<e_mark, e_undos, e_idle>>
    /\ IF redo_stack = <<>>
       THEN UNCHANGED <<rows, undo_stack, redo_stack, selection, e_pre, e_fresh>>
       ELSE /\ undo_stack' = Append(undo_stack, rows)
            /\ rows' = pop(redo_stack).top
            /\ redo_stack' = pop(redo_stack).rest
            /\ selection' = {}
            /\ e_fresh' = FALSE
            /\ UNCHANGED e_pre
    /\ UNCHANGED <<gui, queries_file>>

\* a Cancel that saves
QuitSaves ==
    /\ gui = "open"
    /\ OnlyEditor
    /\ Noted("cancel", "", "")
    /\ queries_file' = rows
    /\ gui' = "closed"
    /\ UNCHANGED <<rows, undo_stack, redo_stack, selection, seriesVars>>

\* quit_without_save(): Cancel
quit_without_save ==
    /\ gui = "open"
    /\ OnlyEditor
    /\ Noted("cancel", "", "")
    /\ gui' = "closed"
    /\ UNCHANGED <<rows, undo_stack, redo_stack, selection, seriesVars, queries_file>>

\* finish_and_exit(): Finish; save_queries(self.rows) writes the rows as they are
finish_and_exit ==
    /\ gui = "open"
    /\ OnlyEditor
    /\ Noted("finish", "", "")
    /\ queries_file' = rows
    /\ gui' = "closed"
    /\ UNCHANGED <<rows, undo_stack, redo_stack, selection, seriesVars>>

EditorNext ==
    \/ \E sels \in SUBSET (1..MaxRows) : Select(sels)
    \/ \E query \in QueryEntries, brand \in BrandEntries : add_row(query, brand)
    \/ \E query \in QueryEntries, brand \in BrandEntries : update_row(query, brand)
    \/ delete_selected
    \/ undo
    \/ redo
    \/ quit_without_save
    \/ finish_and_exit

\* the lists queries.json holds when the editor starts: none, one row, two rows,
\* and two lists no editor wrote (a row twice, a row without query)
SavedLists ==
    {<<>>,
     <<[query |-> "a", brand |-> ""]>>,
     <<[query |-> "a", brand |-> "x"], [query |-> "b", brand |-> ""]>>,
     <<[query |-> "a", brand |-> ""], [query |-> "a", brand |-> ""]>>,
     <<[query |-> "", brand |-> ""]>>}

\* QueryGUI.__init__: the rows are loaded, both stacks are empty
EditorInit ==
    /\ queries_file \in SavedLists
    /\ rows = load_queries(queries_file)
    /\ undo_stack = <<>>
    /\ redo_stack = <<>>
    /\ selection = {}
    /\ gui = "open"
    /\ e_op = "none"
    /\ e_query = ""
    /\ e_brand = ""
    /\ e_pre = <<>>
    /\ e_fresh = FALSE
    /\ e_mark = <<>>
    /\ e_undos = 0
    /\ e_redos = 0
    /\ e_idle = FALSE
    /\ sent_cache = {}
    /\ cache_file = <<>>
    /\ m_cars = <<>>
    /\ m_before = {}
    /\ m_log = {}
    /\ m_hits = <<>>
    /\ m_ret = "none"
    /\ alerts = [u \in Ids |-> 0]
    /\ StoreIdle
    /\ RunAtRest
    /\ SchedIdle
    /\ r_prior = {}

SpecEditor == EditorInit /\ [][EditorNext]_vars


---------------------------------------------------------------------------
\* Claims about the query editor, checked under SpecEditor

\* the step is an undo that directly follows an accepted edit
UndoOfEdit == e_op' = "undo" /\ e_fresh

\* C31 as stated: after an accepted add, update or delete an undo restores the row
\* list to its value before that edit and a following redo the value after it;
\* n undos followed by n redos, with no edit in between, return to the list the
\* undos started from.
UndoRedoRoundTrip ==
    [][/\ UndoOfEdit => rows' = e_pre
       /\ (e_undos' > 0 /\ e_redos' = e_undos') => rows' = e_mark']_vars

\* C31, amended: after an accepted add, update or delete an undo restores the row
\* list to its value before that edit and a following redo the value after it;
\* n undos, each made while the undo stack is not empty, followed by n redos
\* with no edit in between return to the list the undos started from.
UndoRedoRoundTripOnStack ==
    [][/\ UndoOfEdit => rows' = e_pre
       /\ (e_undos' > 0 /\ e_redos' = e_undos' /\ ~e_idle') => rows' = e_mark']_vars

\* two undos that changed the list were followed by two redos
UndoRedoRoundTripWitness ==
    /\ e_undos = MaxSeries
    /\ e_redos = MaxSeries
    /\ ~e_idle
    /\ rows = e_mark
    /\ Len(undo_stack) = MaxEdits

\* C32: the query file is written only by Finish: add, update, delete, undo, redo,
\* a selection and Cancel leave it as it is, and Finish leaves in it the current
\* row list in its current order.
OnlyFinishWrites ==
    [][/\ e_op' # "finish" => queries_file' = queries_file
       /\ (gui = "open" /\ e_op' = "finish") => (queries_file' = rows /\ rows' = rows)]_vars

\* Finish after edits: the file holds the two rows of the editor
OnlyFinishWritesWitness ==
    /\ gui = "closed"
    /\ e_op = "finish"
    /\ e_fresh
    /\ Len(rows) = MaxRows
    /\ queries_file = rows

\* the handler of this step turns its request down: add with an empty query or a
\* row that exists, update without exactly one selected row or towards a row
\* that exists elsewhere, delete without selection, undo or redo on an empty stack
Rejects ==
    CASE e_op' = "add" ->
            \/ strip(e_query') = ""
            \/ \E i \in DOMAIN rows : rows[i] = [query |-> strip(e_query'), brand |-> strip(e_brand')]
      [] e_op' = "update" ->
            \/ Cardinality(selection) # 1
            \/ \E sel \in selection, i \in DOMAIN rows :
                  /\ i # sel
                  /\ rows[i].query = (IF strip(e_query') = "" THEN rows[sel].query ELSE strip(e_query'))
                  /\ rows[i].brand = (IF strip(e_brand') = "" THEN rows[sel].brand ELSE strip(e_brand'))
      [] e_op' = "delete" -> selection = {}
      [] e_op' = "undo" -> undo_stack = <<>>
      [] e_op' = "redo" -> redo_stack = <<>>
      [] OTHER -> FALSE

\* C37: every accepted add, update or delete pushes the row list it found on the
\* undo stack and empties the redo stack; a rejected add, update, delete, undo or
\* redo leaves the row list and both stacks as they are.
EditsPushRejectsKeep ==
    [][/\ (e_op' \in {"add", "update", "delete"} /\ ~Rejects)
            => (undo_stack' = Append(undo_stack, rows) /\ redo_stack' = <<>>)
       /\ Rejects => UNCHANGED <<rows, undo_stack, redo_stack>>]_vars

\* an edit was accepted after an undo, and then an add of the same row rejected
EditsPushRejectsKeepWitness ==
    /\ e_op = "add"
    /\ ~e_fresh
    /\ redo_stack # <<>>
    /\ \E i \in DOMAIN rows : rows[i] = [query |-> strip(e_query), brand |-> strip(e_brand)]

\* no two rows with the same (query, brand) pair and no row with an empty query
WellFormed(list) ==
    /\ \A i, j \in DOMAIN list : i # j => list[i] # list[j]
    /\ \A i \in DOMAIN list : list[i].query # ""

\* C38: if the loaded list has no duplicate (query, brand) pair and no row with an
\* empty query, the row list has none after any sequence of add, update, delete,
\* undo and redo. (Until Finish the file holds the loaded list; after it, the rows.)
RowsStayWellFormed == WellFormed(load_queries(queries_file)) => WellFormed(rows)

\* a well-formed list of two rows was reached by edits, an undo and a redo
RowsStayWellFormedWitness ==
    /\ gui = "open"
    /\ e_op = "redo"
    /\ WellFormed(load_queries(queries_file))
    /\ Len(rows) = MaxRows
    /\ rows # load_queries(queries_file)
    /\ undo_stack # <<>>


---------------------------------------------------------------------------
\* scheduler.py: one cron job for run_daily_job, added with max_instances=1. The
\* scheduler counts the executing instances of a job and does not submit a run
\* time while that count has reached max_instances.

\* how many times the trigger is taken to fire
MaxFires == 3

\* `max_instances=1`
max_instances == 1

\* a job store that submits whatever is due
CanSubmitAlways(executing) == TRUE

\* the executor accepts a run of the job while fewer than max_instances execute
CanSubmit(executing) == executing < max_instances

\* the cron trigger fires: the job is submitted, or this run time is skipped. The
\* model keeps the state of one run; a further instance is only counted.
Trigger ==
    /\ j_fired < MaxFires
    /\ j_fired' = j_fired + 1
    /\ IF CanSubmit(jobs)
       THEN /\ runs < MaxRuns
            /\ jobs' = jobs + 1
            /\ IF jobs = 0
               THEN FreshRun
               ELSE UNCHANGED <<matcherVars, storeVars, runVars, runs, k_batch, r_prior, r_queries, v_out, slept, editorVars>>
       ELSE UNCHANGED <<jobs, matcherVars, storeVars, runVars, runs, k_batch, r_prior, r_queries, v_out, slept, editorVars>>

\* run_daily_job has returned or raised: the executor counts the instance out
JobEnds ==
    /\ jobs > 0
    /\ pc \in {"done", "exited"}
    /\ jobs' = jobs - 1
    /\ pc' = "ended"
    /\ UNCHANGED <<driver, genVars, links_chunk, r_cars, r_cause, r_failed, mailed, r_start>>
    /\ UNCHANGED <<matcherVars, storeVars, runs, k_batch, r_prior, r_queries, v_out, slept, editorVars, j_fired>>

SchedulerNext ==
    \/ Trigger
    \/ JobEnds
    \/ \E ok \in BOOLEAN : CreateParser(ok)
    \/ CreateMatcher(TRUE)
    \/ \E res \in DelayFetchResults : ScrapePage(res)
    \/ ResumePage
    \/ EndWalk
    \/ Exhausted
    \/ ParseBatch({})
    \/ StoreBatch(TRUE)
    \/ MatchBatch
    \/ Dispatch
    \/ Finish

\* sched.start(): the trigger has fired for the first time and the first run
\* has been submitted
SchedulerInit ==
    /\ RunAtRest
    /\ EditorIdle
    /\ MatcherInit
    /\ StoreIdle
    /\ r_prior = {}
    /\ jobs = 1
    /\ j_fired = 1

SpecScheduler == SchedulerInit /\ [][SchedulerNext]_vars

\* C33: under the scheduler at most one run_daily_job executes at any time: a
\* trigger that fires while a run is in progress starts no second run, and the
\* run in progress, the seen set and the record store are as they were.
OneRunAtATime ==
    [][/\ jobs' <= 1
       /\ (jobs = 1 /\ j_fired' # j_fired)
            => (jobs' = 1 /\ UNCHANGED <<matcherVars, storeVars, runVars, runs>>)]_vars

\* the trigger fired while a batch was being stored, and the run went on to its end
OneRunAtATimeWitness ==
    /\ pc = "done"
    /\ runs = 1
    /\ j_fired = MaxFires
    /\ jobs = 1
    /\ files # <<>>


---------------------------------------------------------------------------
\* Further claims about scrape_all_links, checked under SpecPaginator

\* the links the walk has before it in this step: those of the page it fetches,
\* or the rest of the page it is in
Ahead == IF g_page' # g_page THEN SubSeq(g_links', Len(g_links) + 1, Len(g_links')) ELSE g_rest

\* the links the walk passes in this step
Passed == SubSeq(Ahead, 1, Len(Ahead) - Len(g_rest'))

NotSeen(link) == link \notin sent_cache

\* the links appended to the buffer in this step, in order
PlacedNow == SubSeq(g_out', Len(g_out) + 1, Len(g_out'))

\* C34: no link is lost or reordered by batching. In every step the links put in
\* the buffer are, in order, the links the walk passes that are not in the
\* exclusion set at that moment; the links not yet passed stay ahead; a yield
\* hands over the whole buffer and any other step keeps it; and the walk ends
\* with page max_pages fetched, nothing ahead and nothing in the buffer. So the
\* yielded batches, concatenated, are the item links of pages 1..max_pages
\* without those excluded when met.
NoLinkLost ==
    [][/\ g_rest' = SubSeq(Ahead, Len(Passed) + 1, Len(Ahead))
       /\ PlacedNow = SelectSeq(Passed, NotSeen)
       /\ Yields => (links_chunk' = g_batch \o PlacedNow /\ g_batch' = <<>>)
       /\ ~Yields => g_batch' = g_batch \o PlacedNow
       /\ pc' = "finish" => (g_batch' = <<>> /\ g_rest' = <<>> /\ g_page' = MaxPages)]_vars

\* a walk that skipped a link, yielded a full batch and a last smaller one, and ended
NoLinkLostWitness ==
    /\ pc = "finish"
    /\ g_skipped # {}
    /\ Len(g_out) > BatchSize
    /\ Len(g_links) > Len(g_out)
    /\ Len(links_chunk) < BatchSize


\* C35: the exclusion set the walk consults is the matcher's live seen set, not a
\* copy from the start of the run: an identity added to sent_cache since the run
\* began (a hit of an earlier batch) is never put in the buffer when the walk
\* meets it again.
LiveSeenSetExcludes == [][\A u \in NewlyPlaced : u \notin sent_cache \ r_start]_vars

\* an identity was yielded on page 1, became a hit, and was skipped on page 2
LiveSeenSetExcludesWitness ==
    /\ g_page = MaxPages
    /\ \E u \in g_skipped \cap Range(Yielded) : u \in sent_cache /\ u \notin r_start


---------------------------------------------------------------------------
\* A further claim about run_daily_job, checked under SpecRun

\* C36: at the end of a run that completes, mailed, the count of new matches, is
\* the number of identities added to the seen set during the run: the size of
\* sent_cache at the end less its size when the matcher loaded it.
MailedCountsNewSeen ==
    pc = "done" => (/\ r_start \subseteq sent_cache
                    /\ mailed = Cardinality(sent_cache) - Cardinality(r_start))

\* a run that began with a seen identity and completed with two new matches
MailedCountsNewSeenWitness ==
    /\ pc = "done"
    /\ r_start # {}
    /\ mailed = 2


---------------------------------------------------------------------------
\* A further claim about _save_batch_to_yaml, checked under SpecStore

\* the shard files this call wrote: new ones, and old ones with new content
WrittenNow == {n \in DOMAIN files' : n \notin DOMAIN files \/ files'[n] # files[n]}

\* C39: _save_batch_to_yaml writes a shard file only when the call added at least
\* one record, and every shard file it leaves holds at least one record, also
\* when the last insertion of the batch is the one that fills the active shard.
WritesOnlyNonEmptyShards ==
    [][/\ s_added' = 0 => files' = files
       /\ \A n \in WrittenNow : files'[n] # {}]_vars

====
